---- MODULE Spec2Model ----
(***************************************************************************)
(* Model of the SeaweedFS storage core:                                    *)
(*   - the LevelDB needle map (weed/storage/needle_map_leveldb.go): an     *)
(*     append-only index file plus a LevelDB lookup store;                 *)
(*   - the Topology (weed/topology/topology.go): collections, volume       *)
(*     layouts, erasure-coded shard locations, write-target selection;     *)
(*   - volume id allocation through the raft server.                       *)
(* Three specifications share the module, one per subsystem: SpecIndex,    *)
(* SpecTopo and SpecVid.  Each leaves the other subsystems' variables      *)
(* unchanged.                                                              *)
(***************************************************************************)
EXTENDS Integers, Sequences, FiniteSets, TLC

VARIABLES
    \* ---- needle map (one LevelDbNeedleMap and its two files) ----
    indexFile,   \* the .idx file: sequence of [Key, Offset, Size] records
    db,          \* the LevelDB store: NeedleId -> [ok, Offset, Size]
    pc,          \* where the needle map's single writer is
    cur,         \* arguments and locals of the running Put / Delete
    nmRet,       \* what the last finished Put / Delete / open returned
    openInfo,    \* history: what the last NewLevelDbNeedleMap saw and did
    faulty,      \* history: a store write failed or was cut off by a crash
                 \* since the store was last in step with the index file
    mapMetric,   \* the needle map's mapMetric: its counters
    \* ---- topology ----
    collectionMap,  \* Topology.collectionMap: name -> Collection, a Collection
                    \* being its layouts: key -> (volume id -> data nodes)
    ecShardMap,     \* Topology.ecShardMap: volume id -> EcShardLocations
    sequence,       \* Topology.Sequence: the next file key to hand out
    topoRet,        \* the last topology call, its arguments and its result
    \* ---- volume id allocation (several topology replicas, one raft group) ----
    maxVolumeId,    \* each replica's Topology: GetMaxVolumeId()
    raftAttached,   \* the replicas whose Topology.RaftServer is set
    raftLeader,     \* the replica in raft.Leader state, "none" when there is none
    accepted,       \* the volume ids of the commands the group has accepted
    callPc,         \* per caller of NextVolumeId: "idle" or "submit"
    callOn,         \* per caller: the replica its call runs on
    callNext,       \* per caller: the local variable next
    callRet,        \* per caller: what its last NextVolumeId returned
    lastDo,         \* history, per caller: how its last RaftServer.Do ended
    submits,        \* history, per caller: RaftServer.Do calls of its last call
    granted,        \* history: per volume id, how often it was returned (up to 2)
    \* ---- leadership queries ----
    knownLeader,    \* per replica: what its raft server's Leader() answers
    leadRet,        \* the last IsLeader / Leader call, what it saw and returned
    \* ---- data node synchronization ----
    dnVolumes,      \* per data node: DataNode.volumes, the volumes it holds
    syncRet,        \* the last sync call, its arguments and what it returned
    \* ---- two requests inside Register / UnRegisterVolumeLayout ----
    racePc,         \* per request: the statement it is at
    raceCall,       \* per request: its arguments and the collection it holds
    raceBase,       \* history: the collection map the requests started from
    \* ---- the data center level ----
    children,       \* the topology's children: name -> DataCenter object
    dcCreated,      \* how many DataCenter objects have been created
    dcPc,           \* per request: the statement of GetOrCreateDataCenter it is at
    dcCur,          \* per request: the name asked for, the object created
    dcRet,          \* per request: what its last call returned
    dcReturned      \* history: per name, every object a call has returned

nmVars == <<indexFile, db, pc, cur, nmRet, openInfo, faulty, mapMetric>>

topoVars == <<collectionMap, ecShardMap, sequence, topoRet>>

vidVars == <<maxVolumeId, raftAttached, raftLeader, accepted, callPc, callOn,
             callNext, callRet, lastDo, submits, granted>>

leadVars == <<knownLeader, leadRet>>

syncVars == <<dnVolumes, syncRet>>

raceVars == <<racePc, raceCall, raceBase>>

dcVars == <<children, dcCreated, dcPc, dcCur, dcRet, dcReturned>>

vars == <<indexFile, db, pc, cur, nmRet, openInfo, faulty, mapMetric,
          collectionMap, ecShardMap, sequence, topoRet,
          maxVolumeId, raftAttached, raftLeader, accepted, callPc, callOn,
          callNext, callRet, lastDo, submits, granted,
          knownLeader, leadRet, dnVolumes, syncRet,
          racePc, raceCall, raceBase,
          children, dcCreated, dcPc, dcCur, dcRet, dcReturned>>

(***************************************************************************)
(* Needle map: values and inputs                                           *)
(***************************************************************************)

\* types.TombstoneFileSize is math.MaxUint32, the all-ones size.  Sizes are
\* modelled eight bits wide (TLC's integers are 32-bit signed), so the
\* all-ones size is 255.  The byte counters are 64 bits wide in the code and
\* plain integers here; no sum of the sizes explored comes near either limit.
TombstoneFileSize == 255

\* Longest index file explored.
MaxLog == 3

\* The file counter and the deletion counter are explored up to here.
MaxCount == 2

\* The (key, offset, size) triples handed to Put and the (key, offset) pairs
\* handed to Delete.  Put takes any uint32 size and any offset, so a zero
\* offset and the tombstone size are among them.
PutInputs ==
    { <<42, 100, 50>>, <<42, 200, 30>>, <<42, 0, 50>>,
      <<42, 100, TombstoneFileSize>>, <<43, 200, 30>> }

DeleteInputs == { <<42, 100>>, <<43, 200>> }

NeedleIds == {42, 43}

\* Modification times of the store's LOG file and of the index file.
ModTimes == {1, 2}

\* Get's "not found" and a stored needle value.
NotFound == [ok |-> FALSE, Offset |-> 0, Size |-> 0]

NeedleValue(offset, size) == [ok |-> TRUE, Offset |-> offset, Size |-> size]

IdxEntry(key, offset, size) == [Key |-> key, Offset |-> offset, Size |-> size]

EmptyDb == [k \in NeedleIds |-> NotFound]

\* mapMetric of a new needle map: every counter zero.
ZeroMetric ==
    [FileCounter |-> 0, FileByteCounter |-> 0,
     DeletionCounter |-> 0, DeletionByteCounter |-> 0]

\* before is history: the counters as the call found them.
NoCall ==
    [op |-> "none", Key |-> 0, Offset |-> 0, Size |-> 0, oldSize |-> 0,
     before |-> ZeroMetric]

\* What a call returned: err is "nil", or names the step that failed.
Ret(op, err) == [op |-> op, err |-> err]

NoOpen == [stale |-> FALSE, regenerated |-> FALSE]

(***************************************************************************)
(* Needle map: the store's primitives.  A LevelDB call can fail; `fail`    *)
(* is that outcome, and a failed call leaves the store as it was.          *)
(***************************************************************************)

\* LevelDbNeedleMap.Get: the value under key, or not found.
Get(d, key) == d[key]

\* levelDbWrite: db.Put(key, offset ++ size).
levelDbWrite(d, key, offset, size, fail) ==
    IF fail THEN d ELSE [d EXCEPT ![key] = NeedleValue(offset, size)]

\* levelDbDelete: db.Delete(key).
levelDbDelete(d, key, fail) ==
    IF fail THEN d ELSE [d EXCEPT ![key] = NotFound]

\* WalkStep with the tombstone test left out: a tombstone record is upserted.
WalkStep_NoTombstone(d, r, fail) ==
    IF r.Offset # 0
    THEN levelDbWrite(d, r.Key, r.Offset, r.Size, fail)
    ELSE levelDbDelete(d, r.Key, fail)

\* The callback generateLevelDbFile hands to idx.WalkIndexFile: one record.
\* The results of levelDbWrite and levelDbDelete are dropped there.
WalkStep(d, r, fail) ==
    IF r.Offset # 0 /\ r.Size # TombstoneFileSize
    THEN levelDbWrite(d, r.Key, r.Offset, r.Size, fail)
    ELSE levelDbDelete(d, r.Key, fail)

\* idx.WalkIndexFile over the first n records of log, in order; the store
\* calls for the records whose index is in fails fail.
RECURSIVE WalkIndexFile(_, _, _, _)
WalkIndexFile(d, log, n, fails) ==
    IF n = 0 THEN d
    ELSE WalkStep(WalkIndexFile(d, log, n - 1, fails), log[n], n \in fails)

\* generateLevelDbFile: open the store (which can fail: nothing is replayed)
\* and replay the index file into it.  walked is how many records the walk
\* read before it stopped (all of them unless reading the file failed).
generateLevelDbFile(d, log, openErr, walked, fails) ==
    IF openErr THEN d ELSE WalkIndexFile(d, log, walked, fails)

\* isLevelDbFresh: the store's LOG file opens, both files stat, and the
\* store's modification time is after the index file's.
isLevelDbFresh(logOpenErr, dbStatErr, indexStatErr, dbMod, indexMod) ==
    IF logOpenErr THEN FALSE
    ELSE IF dbStatErr \/ indexStatErr THEN FALSE
    ELSE dbMod > indexMod

\* baseNeedleMapper.appendToIndexFile, when the write succeeds: the record
\* is added at the end of the index file.
appendToIndexFile(log, key, offset, size) ==
    Append(log, IdxEntry(key, offset, size))

\* mapMetric.logPut: one more file and its bytes; an overwritten entry (old
\* size above zero) is one more deletion and its bytes.
logPut(mm, key, oldSize, newSize) ==
    [FileCounter |-> mm.FileCounter + 1,
     FileByteCounter |-> mm.FileByteCounter + newSize,
     DeletionCounter |-> mm.DeletionCounter + (IF oldSize > 0 THEN 1 ELSE 0),
     DeletionByteCounter |->
         mm.DeletionByteCounter + (IF oldSize > 0 THEN oldSize ELSE 0)]

\* mapMetric.logDelete: one more deletion and the deleted entry's bytes.
logDelete(mm, deletedByteCount) ==
    [mm EXCEPT !.DeletionCounter = @ + 1,
               !.DeletionByteCounter = @ + deletedByteCount]

\* The counters and the entries after the first n records of log, each
\* record taken as the Put or the Delete that appended it.
RECURSIVE MetricReplay(_, _)
MetricReplay(log, n) ==
    IF n = 0 THEN [mm |-> ZeroMetric, d |-> EmptyDb]
    ELSE LET prev == MetricReplay(log, n - 1)
             r == log[n]
             old == Get(prev.d, r.Key)
         IN  IF r.Size = TombstoneFileSize
             THEN [mm |-> IF old.ok THEN logDelete(prev.mm, old.Size)
                          ELSE prev.mm,
                   d |-> levelDbDelete(prev.d, r.Key, FALSE)]
             ELSE [mm |-> logPut(prev.mm, r.Key,
                                 IF old.ok THEN old.Size ELSE 0, r.Size),
                   d |-> levelDbWrite(prev.d, r.Key, r.Offset, r.Size, FALSE)]

\* newNeedleMapMetricFromIndexFile: the counters of the operations the index
\* file records.
newNeedleMapMetricFromIndexFile(log) == MetricReplay(log, Len(log)).mm

\* What the freshness check can see when a needle map is opened, and what it
\* answers: fresh is isLevelDbFresh's answer; stale says that the store is
\* missing, or a file cannot be stat'ed, or the store's modification time is
\* not after the index file's.
StatOutcomes ==
    { [fresh |-> isLevelDbFresh(logOpenErr, dbStatErr, indexStatErr,
                                dbMod, indexMod),
       stale |-> (logOpenErr \/ dbStatErr \/ indexStatErr
                    \/ ~(dbMod > indexMod))] :
        logOpenErr \in BOOLEAN, dbStatErr \in BOOLEAN,
        indexStatErr \in BOOLEAN, dbMod \in ModTimes, indexMod \in ModTimes }

(***************************************************************************)
(* Needle map: operations                                                  *)
(***************************************************************************)

\* NewLevelDbNeedleMap.  The freshness check decides whether the store is
\* regenerated; the result of generateLevelDbFile is not looked at.  Then
\* the store is opened and the metrics are loaded from the index file;
\* either can fail, and then no needle map is returned.
NewLevelDbNeedleMap ==
    /\ pc = "closed"
    /\ \E st \in StatOutcomes :
         IF st.fresh
         THEN \E loadErr \in BOOLEAN :
                /\ db' = db
                /\ pc' = IF loadErr THEN "closed" ELSE "idle"
                /\ nmRet' = Ret("open", IF loadErr THEN "open" ELSE "nil")
                /\ openInfo' = [stale |-> st.stale, regenerated |-> FALSE]
                /\ faulty' = faulty
                /\ mapMetric' =
                      IF loadErr THEN ZeroMetric
                      ELSE newNeedleMapMetricFromIndexFile(indexFile)
         ELSE \E genOpenErr, loadErr \in BOOLEAN :
                \E walked \in IF genOpenErr THEN {0} ELSE 0..Len(indexFile),
                   fails \in IF genOpenErr THEN {{}}
                             ELSE {{}} \cup {{i} : i \in 1..Len(indexFile)} :
                LET complete == /\ ~genOpenErr
                                /\ walked = Len(indexFile)
                                /\ fails = {}
                IN  /\ db' = generateLevelDbFile(db, indexFile, genOpenErr,
                                                 walked, fails)
                    /\ pc' = IF loadErr THEN "closed" ELSE "idle"
                    /\ nmRet' = Ret("open", IF loadErr THEN "open" ELSE "nil")
                    /\ openInfo' = [stale |-> st.stale,
                                    regenerated |-> complete]
                    /\ faulty' = IF complete THEN FALSE
                                  ELSE IF genOpenErr THEN faulty ELSE TRUE
                    /\ mapMetric' =
                          IF loadErr THEN ZeroMetric
                          ELSE newNeedleMapMetricFromIndexFile(indexFile)
    /\ UNCHANGED <<indexFile, cur>>
    /\ UNCHANGED <<topoVars, vidVars, leadVars, syncVars, raceVars, dcVars>>

\* PutStart with the store written before the index file.
PutStart_StoreFirst(key, offset, size) ==
    /\ pc = "idle"
    /\ Len(indexFile) < MaxLog
    /\ mapMetric.FileCounter < MaxCount
    /\ LET old == Get(db, key)
           oldSize == IF old.ok THEN old.Size ELSE 0
       IN  /\ cur' = [op |-> "Put", Key |-> key, Offset |-> offset,
                      Size |-> size, oldSize |-> oldSize, before |-> mapMetric]
           /\ mapMetric' = logPut(mapMetric, key, oldSize, size)
    /\ db' = levelDbWrite(db, key, offset, size, FALSE)
    /\ pc' = "append"
    /\ UNCHANGED <<indexFile, nmRet, openInfo, faulty>>
    /\ UNCHANGED <<topoVars, vidVars, leadVars, syncVars, raceVars, dcVars>>

\* PutStart that accounts for the new size alone: logPut is handed no old
\* size.
PutStart_NoOldSize(key, offset, size) ==
    /\ pc = "idle"
    /\ Len(indexFile) < MaxLog
    /\ mapMetric.FileCounter < MaxCount
    /\ LET old == Get(db, key)
           oldSize == IF old.ok THEN old.Size ELSE 0
       IN  /\ cur' = [op |-> "Put", Key |-> key, Offset |-> offset,
                      Size |-> size, oldSize |-> oldSize, before |-> mapMetric]
           /\ mapMetric' = logPut(mapMetric, key, 0, size)
    /\ pc' = "append"
    /\ UNCHANGED <<indexFile, db, nmRet, openInfo, faulty>>
    /\ UNCHANGED <<topoVars, vidVars, leadVars, syncVars, raceVars, dcVars>>

\* Put, up to the append: read the old size and account for the put.
PutStart(key, offset, size) ==
    /\ pc = "idle"
    /\ Len(indexFile) < MaxLog
    /\ mapMetric.FileCounter < MaxCount
    /\ LET old == Get(db, key)
           oldSize == IF old.ok THEN old.Size ELSE 0
       IN  /\ cur' = [op |-> "Put", Key |-> key, Offset |-> offset,
                      Size |-> size, oldSize |-> oldSize, before |-> mapMetric]
           /\ mapMetric' = logPut(mapMetric, key, oldSize, size)
    /\ pc' = "append"
    /\ UNCHANGED <<indexFile, db, nmRet, openInfo, faulty>>
    /\ UNCHANGED <<topoVars, vidVars, leadVars, syncVars, raceVars, dcVars>>

\* Delete, up to the append: read the old entry and account for the delete.
DeleteStart(key, offset) ==
    /\ pc = "idle"
    /\ Len(indexFile) < MaxLog
    /\ mapMetric.DeletionCounter < MaxCount
    /\ LET old == Get(db, key)
       IN  /\ cur' = [op |-> "Delete", Key |-> key, Offset |-> offset,
                      Size |-> TombstoneFileSize,
                      oldSize |-> IF old.ok THEN old.Size ELSE 0,
                      before |-> mapMetric]
           /\ mapMetric' = IF old.ok THEN logDelete(mapMetric, old.Size)
                           ELSE mapMetric
    /\ pc' = "append"
    /\ UNCHANGED <<indexFile, db, nmRet, openInfo, faulty>>
    /\ UNCHANGED <<topoVars, vidVars, leadVars, syncVars, raceVars, dcVars>>

\* The append of Put and of Delete ("write to index file first"): the record
\* goes to the end of the index file, or the write fails, the file is as it
\* was, and Put / Delete return the error without touching the store.
AppendToIndexFile ==
    /\ pc = "append"
    /\ \E err \in BOOLEAN :
         IF err
         THEN /\ pc' = "idle"
              /\ nmRet' = Ret(cur.op, "index")
              /\ cur' = NoCall
              /\ UNCHANGED indexFile
         ELSE /\ indexFile' = appendToIndexFile(indexFile, cur.Key,
                                                cur.Offset, cur.Size)
              /\ pc' = "store"
              /\ UNCHANGED <<nmRet, cur>>
    /\ UNCHANGED <<db, openInfo, faulty, mapMetric>>
    /\ UNCHANGED <<topoVars, vidVars, leadVars, syncVars, raceVars, dcVars>>

\* The last statement of Put (levelDbWrite) and of Delete (levelDbDelete).
StoreUpdate ==
    /\ pc = "store"
    /\ \E fail \in BOOLEAN :
         /\ db' = IF cur.op = "Put"
                  THEN levelDbWrite(db, cur.Key, cur.Offset, cur.Size, fail)
                  ELSE levelDbDelete(db, cur.Key, fail)
         /\ nmRet' = Ret(cur.op, IF fail THEN "store" ELSE "nil")
         /\ faulty' = (faulty \/ fail)
    /\ pc' = "idle"
    /\ cur' = NoCall
    /\ UNCHANGED <<indexFile, openInfo, mapMetric>>
    /\ UNCHANGED <<topoVars, vidVars, leadVars, syncVars, raceVars, dcVars>>

\* LevelDbNeedleMap.Close.
Close ==
    /\ pc = "idle"
    /\ pc' = "closed"
    /\ nmRet' = Ret("Close", "nil")
    /\ mapMetric' = ZeroMetric
    /\ UNCHANGED <<indexFile, db, cur, openInfo, faulty>>
    /\ UNCHANGED <<topoVars, vidVars, leadVars, syncVars, raceVars, dcVars>>

\* The process dies between the append and the store update.
Crash ==
    /\ pc = "store"
    /\ pc' = "closed"
    /\ cur' = NoCall
    /\ nmRet' = Ret("Crash", "nil")
    /\ faulty' = TRUE
    /\ mapMetric' = ZeroMetric
    /\ UNCHANGED <<indexFile, db, openInfo>>
    /\ UNCHANGED <<topoVars, vidVars, leadVars, syncVars, raceVars, dcVars>>

InitIndex ==
    /\ indexFile = <<>>
    /\ db = EmptyDb
    /\ pc = "closed"
    /\ cur = NoCall
    /\ nmRet = Ret("none", "nil")
    /\ openInfo = NoOpen
    /\ faulty = FALSE
    /\ mapMetric = ZeroMetric

NextIndex ==
    \/ NewLevelDbNeedleMap
    \/ \E in \in PutInputs : PutStart(in[1], in[2], in[3])
    \/ \E in \in DeleteInputs : DeleteStart(in[1], in[2])
    \/ AppendToIndexFile
    \/ StoreUpdate
    \/ Close
    \/ Crash

\* Opening a needle map over files as they can be found on disk: an index
\* file of up to two records, and a store directory left by an earlier life
\* of the volume, holding any of these entries.
RebuildRecords ==
    { IdxEntry(42, 100, 50), IdxEntry(43, 200, 30),
      IdxEntry(42, 100, TombstoneFileSize) }

RebuildLogs ==
    {<<>>} \cup { <<r>> : r \in RebuildRecords }
           \cup { <<r1, r2>> : r1 \in RebuildRecords, r2 \in RebuildRecords }

StaleStores ==
    [NeedleIds -> {NotFound, NeedleValue(100, 50), NeedleValue(200, 30)}]

InitRebuild ==
    /\ indexFile \in RebuildLogs
    /\ db \in StaleStores
    /\ pc = "closed"
    /\ cur = NoCall
    /\ nmRet = Ret("none", "nil")
    /\ openInfo = NoOpen
    /\ faulty = TRUE
    /\ mapMetric = ZeroMetric

NextRebuild ==
    \/ NewLevelDbNeedleMap
    \/ Close

(***************************************************************************)
(* Topology: values and inputs                                             *)
(***************************************************************************)

DataNodes == {"dn1", "dn2"}

\* storage.ReplicaPlacement: its three counts.
ReplicaPlacement(dc, rack, same) ==
    [DiffDataCenterCount |-> dc, DiffRackCount |-> rack, SameRackCount |-> same]

\* The volumes data nodes report: storage.VolumeInfo, identity fields only.
VolumeInfo(id, collection, rp, ttl) ==
    [Id |-> id, Collection |-> collection, ReplicaPlacement |-> rp, Ttl |-> ttl]

VolumeInfos ==
    { VolumeInfo(1, "c1", ReplicaPlacement(0, 0, 0), ""),
      VolumeInfo(2, "c1", ReplicaPlacement(0, 0, 1), ""),
      VolumeInfo(3, "",   ReplicaPlacement(0, 0, 0), "") }

\* The erasure-coded volumes data nodes report shards of.
EcVolumeInfos == { [VolumeId |-> 4, Collection |-> "c1"] }

ShardIds == {0, 1}

\* The shard reports: which data node reports which shard of which volume.
EcShardReports ==
    { <<ecv, 0, "dn1">> : ecv \in EcVolumeInfos }
      \cup { <<ecv, 1, "dn2">> : ecv \in EcVolumeInfos }

VolumeIds == {1, 2, 3, 4}

\* Collection names a Lookup or a listing is asked about; "" asks Lookup to
\* search every collection.
CollectionNames == {"", "c1"}

\* VolumeGrowOption: what a write asks for.
VolumeGrowOptions ==
    { [Collection |-> "c1", ReplicaPlacement |-> ReplicaPlacement(0, 0, 0),
       Ttl |-> ""],
      [Collection |-> "c1", ReplicaPlacement |-> ReplicaPlacement(0, 0, 1),
       Ttl |-> ""],
      [Collection |-> "", ReplicaPlacement |-> ReplicaPlacement(0, 0, 0),
       Ttl |-> ""] }

\* How many file keys one PickForWrite asks for.
Counts == {1}

\* The sequencer hands out file keys up to here.
MaxFileKey == 2

Cookies == {7}

\* A nil slice, an empty map.
Nil == <<>>

EmptyMap == [x \in {} |-> Nil]

\* What PickForWrite returns: the file id (volume id, file key, cookie; nil
\* for the empty string), the count, the data node ("" for nil), the error.
PickResult(fid, count, dn, err) ==
    [fid |-> fid, count |-> count, dn |-> dn, err |-> err]

NoPick == PickResult(Nil, 0, "", "none")

NoTopoCall ==
    [op |-> "none", collection |-> "", id |-> 0, key |-> Nil, dn |-> "",
     before |-> Nil, wasLast |-> FALSE, pick |-> NoPick]

(***************************************************************************)
(* Topology: the maps and lists under it                                   *)
(***************************************************************************)

\* ReplicaPlacement.GetCopyCount: the replication factor.
GetCopyCount(rp) ==
    rp.DiffDataCenterCount + rp.DiffRackCount + rp.SameRackCount + 1

\* The key of a volume layout inside its collection: the replica placement's
\* digits and the TTL.
LayoutKey(rp, ttl) ==
    <<rp.DiffDataCenterCount, rp.DiffRackCount, rp.SameRackCount, ttl>>

\* A map with one key set, and with one key removed.
MapSet(m, k, val) ==
    [x \in DOMAIN m \cup {k} |-> IF x = k THEN val ELSE m[x]]

MapDelete(m, k) == [x \in DOMAIN m \ {k} |-> m[x]]

\* A list of data nodes with dn added (once), and with dn removed.
ListSet(list, dn) ==
    IF \E i \in 1..Len(list) : list[i] = dn THEN list ELSE Append(list, dn)

ListRemove(list, dn) == SelectSeq(list, LAMBDA x : x # dn)

\* VolumeLayout.Lookup: the data nodes of vid, nil when it has none.
LayoutLookup(vl, vid) == IF vid \in DOMAIN vl THEN vl[vid] ELSE Nil

\* VolumeLayout.RegisterVolume: the pairing (v, dn) is added.
RegisterVolume(vl, id, dn) == MapSet(vl, id, ListSet(LayoutLookup(vl, id), dn))

\* VolumeLayout.UnRegisterVolume: the pairing (v, dn) is removed; a volume
\* with no data node left is no longer registered.
UnRegisterVolume(vl, id, dn) ==
    LET rest == ListRemove(LayoutLookup(vl, id), dn)
    IN  IF rest = Nil THEN MapDelete(vl, id) ELSE MapSet(vl, id, rest)

\* VolumeLayout.isEmpty: no volume is registered.
isEmpty(vl) == DOMAIN vl = {}

\* VolumeLayout.PickForWrite: the volumes it may return, those whose replica
\* list is at least as long as the replication factor.  The caller gets one
\* of them with its replica list, or an error when there is none.
LayoutWritables(vl, rp) ==
    { id \in DOMAIN vl : Len(vl[id]) >= GetCopyCount(rp) }

\* Collection.Lookup: the replica lists its layouts hold for vid; the first
\* one met is returned, in map order, so any of them can be.
CollectionLookup(c, vid) ==
    { c[key][vid] : key \in { k \in DOMAIN c : vid \in DOMAIN c[k] } }

\* Topology.GetVolumeLayout: the collection and the layout are created when
\* they are not there.  This is the collection map afterwards.
GetVolumeLayout(cm, collectionName, rp, ttl) ==
    LET c == IF collectionName \in DOMAIN cm THEN cm[collectionName]
             ELSE EmptyMap
        key == LayoutKey(rp, ttl)
    IN  MapSet(cm, collectionName,
               IF key \in DOMAIN c THEN c ELSE MapSet(c, key, EmptyMap))

\* The loop of Topology.Lookup over the shard locations: every shard's list,
\* appended in shard order.
RECURSIVE FlattenShards(_, _)
FlattenShards(locations, n) ==
    IF n = 0 THEN Nil
    ELSE FlattenShards(locations, n - 1) \o locations[n - 1]

\* Topology.LookupEcShards and the flattening that follows it.
LookupEc(ec, vid) ==
    IF vid \in DOMAIN ec
    THEN FlattenShards(ec[vid].Locations, Cardinality(ShardIds))
    ELSE Nil

\* Topology.Lookup: every list of data nodes the call can return.
Lookup(collection, vid) ==
    IF collection = ""
    THEN LET hits == UNION { CollectionLookup(collectionMap[c], vid) :
                                c \in DOMAIN collectionMap }
         IN  IF hits # {} THEN hits ELSE { LookupEc(ecShardMap, vid) }
    ELSE IF collection \in DOMAIN collectionMap
         THEN LET hits == CollectionLookup(collectionMap[collection], vid)
              IN  IF hits # {} THEN hits ELSE { Nil }
         ELSE { LookupEc(ecShardMap, vid) }

\* Topology.ListCollections.  includeNormalVolumes is not read.
ListCollections(includeNormalVolumes, includeEcVolumes) ==
    DOMAIN collectionMap
      \cup (IF includeEcVolumes
            THEN { ecShardMap[vid].Collection : vid \in DOMAIN ecShardMap }
            ELSE {})

\* Topology.DeleteCollection.
DeleteCollection(cm, collectionName) == MapDelete(cm, collectionName)

(***************************************************************************)
(* Topology: operations                                                    *)
(***************************************************************************)

\* The replica list the topology holds for v in v's own layout.
ReplicaList(cm, v) ==
    LET key == LayoutKey(v.ReplicaPlacement, v.Ttl)
    IN  IF v.Collection \in DOMAIN cm /\ key \in DOMAIN cm[v.Collection]
        THEN LayoutLookup(cm[v.Collection][key], v.Id)
        ELSE Nil

\* The replica lists collection name holds, over all its layouts.
CollectionReplicas(cm, name) ==
    IF name \in DOMAIN cm
    THEN { kv \in (DOMAIN cm[name]) \X VolumeIds :
             kv[2] \in DOMAIN cm[name][kv[1]] }
    ELSE {}

TopoCall(op, v, dn, before, wasLast) ==
    [op |-> op, collection |-> v.Collection, id |-> v.Id,
     key |-> LayoutKey(v.ReplicaPlacement, v.Ttl), dn |-> dn,
     before |-> before, wasLast |-> wasLast, pick |-> NoPick]

\* Topology.RegisterVolumeLayout.
RegisterVolumeLayout(v, dn) ==
    LET key == LayoutKey(v.ReplicaPlacement, v.Ttl)
        cm1 == GetVolumeLayout(collectionMap, v.Collection,
                               v.ReplicaPlacement, v.Ttl)
        vl == RegisterVolume(cm1[v.Collection][key], v.Id, dn)
    IN  /\ collectionMap' =
              MapSet(cm1, v.Collection, MapSet(cm1[v.Collection], key, vl))
        /\ topoRet' = TopoCall("Register", v, dn, ReplicaList(collectionMap, v),
                               FALSE)
        /\ UNCHANGED <<ecShardMap, sequence>>
        /\ UNCHANGED <<nmVars, vidVars, leadVars, syncVars, raceVars, dcVars>>

\* UnRegisterVolumeLayout with the emptiness test left out: the collection
\* is always deleted.
UnRegisterVolumeLayout_AlwaysDelete(v, dn) ==
    /\ collectionMap' = DeleteCollection(collectionMap, v.Collection)
    /\ topoRet' = TopoCall("UnRegister", v, dn, ReplicaList(collectionMap, v),
                           CollectionReplicas(collectionMap, v.Collection)
                             = { <<LayoutKey(v.ReplicaPlacement, v.Ttl), v.Id>> }
                           /\ ReplicaList(collectionMap, v) = <<dn>>)
    /\ UNCHANGED <<ecShardMap, sequence>>
    /\ UNCHANGED <<nmVars, vidVars, leadVars, syncVars, raceVars, dcVars>>

\* UnRegisterVolumeLayout with the collection never deleted.
UnRegisterVolumeLayout_NeverDelete(v, dn) ==
    LET key == LayoutKey(v.ReplicaPlacement, v.Ttl)
        cm1 == GetVolumeLayout(collectionMap, v.Collection,
                               v.ReplicaPlacement, v.Ttl)
        vl == UnRegisterVolume(cm1[v.Collection][key], v.Id, dn)
    IN  /\ collectionMap' =
              MapSet(cm1, v.Collection, MapSet(cm1[v.Collection], key, vl))
        /\ topoRet' = TopoCall("UnRegister", v, dn, ReplicaList(collectionMap, v),
                           CollectionReplicas(collectionMap, v.Collection)
                             = { <<key, v.Id>> }
                           /\ ReplicaList(collectionMap, v) = <<dn>>)
        /\ UNCHANGED <<ecShardMap, sequence>>
        /\ UNCHANGED <<nmVars, vidVars, leadVars, syncVars, raceVars, dcVars>>

\* Topology.UnRegisterVolumeLayout: the pairing is removed from the volume's
\* layout, and when that layout is then empty the whole collection is
\* deleted.  wasLast records that the call removed the last replica the
\* collection held in any layout.
UnRegisterVolumeLayout(v, dn) ==
    LET key == LayoutKey(v.ReplicaPlacement, v.Ttl)
        cm1 == GetVolumeLayout(collectionMap, v.Collection,
                               v.ReplicaPlacement, v.Ttl)
        vl == UnRegisterVolume(cm1[v.Collection][key], v.Id, dn)
        cm2 == MapSet(cm1, v.Collection, MapSet(cm1[v.Collection], key, vl))
    IN  /\ collectionMap' =
              IF isEmpty(vl) THEN DeleteCollection(cm2, v.Collection) ELSE cm2
        /\ topoRet' = TopoCall("UnRegister", v, dn, ReplicaList(collectionMap, v),
                           CollectionReplicas(collectionMap, v.Collection)
                             = { <<key, v.Id>> }
                           /\ ReplicaList(collectionMap, v) = <<dn>>)
        /\ UNCHANGED <<ecShardMap, sequence>>
        /\ UNCHANGED <<nmVars, vidVars, leadVars, syncVars, raceVars, dcVars>>

\* PickForWrite that takes any registered volume of the layout, whatever
\* the layout's own selection says.
PickForWrite_AnyVolume(count, option) ==
    LET key == LayoutKey(option.ReplicaPlacement, option.Ttl)
        cm1 == GetVolumeLayout(collectionMap, option.Collection,
                               option.ReplicaPlacement, option.Ttl)
        vl == cm1[option.Collection][key]
    IN  /\ collectionMap' = cm1
        /\ IF DOMAIN vl = {}
           THEN /\ topoRet' = [NoTopoCall EXCEPT
                                 !.op = "PickForWrite",
                                 !.collection = option.Collection, !.key = key,
                                 !.pick = PickResult(Nil, 0, "", "no writable")]
                /\ UNCHANGED sequence
           ELSE \E vid \in DOMAIN vl, cookie \in Cookies :
                  /\ sequence + count <= MaxFileKey + 1
                  /\ sequence' = sequence + count
                  /\ topoRet' = [NoTopoCall EXCEPT
                                   !.op = "PickForWrite",
                                   !.collection = option.Collection,
                                   !.key = key, !.id = vid,
                                   !.pick = PickResult(<<vid, sequence, cookie>>,
                                                       count, Head(vl[vid]),
                                                       "nil")]
        /\ UNCHANGED ecShardMap
        /\ UNCHANGED <<nmVars, vidVars, leadVars, syncVars, raceVars, dcVars>>

\* Topology.PickForWrite: the layout is found (or created), the layout picks
\* a volume and its replica list; its error, or an empty list, is returned
\* as an error with no file id and no data node; otherwise the sequencer
\* gives the file key and the head of the list is the data node.
PickForWrite(count, option) ==
    LET key == LayoutKey(option.ReplicaPlacement, option.Ttl)
        cm1 == GetVolumeLayout(collectionMap, option.Collection,
                               option.ReplicaPlacement, option.Ttl)
        vl == cm1[option.Collection][key]
        writables == LayoutWritables(vl, option.ReplicaPlacement)
    IN  /\ collectionMap' = cm1
        /\ IF writables = {}
           THEN /\ topoRet' = [NoTopoCall EXCEPT
                                 !.op = "PickForWrite",
                                 !.collection = option.Collection, !.key = key,
                                 !.pick = PickResult(Nil, 0, "", "no writable")]
                /\ UNCHANGED sequence
           ELSE \E vid \in writables, cookie \in Cookies :
                  IF Len(vl[vid]) = 0
                  THEN /\ topoRet' = [NoTopoCall EXCEPT
                                        !.op = "PickForWrite",
                                        !.collection = option.Collection,
                                        !.key = key,
                                        !.pick = PickResult(Nil, 0, "",
                                                            "no writable")]
                       /\ UNCHANGED sequence
                  ELSE /\ sequence + count <= MaxFileKey + 1
                       /\ sequence' = sequence + count
                       /\ topoRet' = [NoTopoCall EXCEPT
                                        !.op = "PickForWrite",
                                        !.collection = option.Collection,
                                        !.key = key, !.id = vid,
                                        !.pick = PickResult(
                                                   <<vid, sequence, cookie>>,
                                                   count, Head(vl[vid]), "nil")]
        /\ UNCHANGED ecShardMap
        /\ UNCHANGED <<nmVars, vidVars, leadVars, syncVars, raceVars, dcVars>>

\* Topology.RegisterEcShards, one shard: the volume's entry is created with
\* its collection when it is not there, and dn is added to the shard's list.
RegisterEcShards(ecv, shardId, dn) ==
    LET loc == IF ecv.VolumeId \in DOMAIN ecShardMap
               THEN ecShardMap[ecv.VolumeId]
               ELSE [Collection |-> ecv.Collection,
                     Locations |-> [sh \in ShardIds |-> Nil]]
    IN  /\ ecShardMap' =
              MapSet(ecShardMap, ecv.VolumeId,
                     [loc EXCEPT !.Locations[shardId] = ListSet(@, dn)])
        /\ topoRet' = [NoTopoCall EXCEPT !.op = "RegisterEcShards",
                                         !.collection = ecv.Collection,
                                         !.id = ecv.VolumeId, !.dn = dn]
        /\ UNCHANGED <<collectionMap, sequence>>
        /\ UNCHANGED <<nmVars, vidVars, leadVars, syncVars, raceVars, dcVars>>

\* Topology.UnRegisterEcShards, one shard: dn is taken off the shard's list;
\* the volume's entry stays.
UnRegisterEcShards(ecv, shardId, dn) ==
    /\ ecv.VolumeId \in DOMAIN ecShardMap
    /\ ecShardMap' =
          [ecShardMap EXCEPT ![ecv.VolumeId].Locations[shardId] =
                                 ListRemove(@, dn)]
    /\ topoRet' = [NoTopoCall EXCEPT !.op = "UnRegisterEcShards",
                                     !.collection = ecv.Collection,
                                     !.id = ecv.VolumeId, !.dn = dn]
    /\ UNCHANGED <<collectionMap, sequence>>
    /\ UNCHANGED <<nmVars, vidVars, leadVars, syncVars, raceVars, dcVars>>

InitTopo ==
    /\ collectionMap = EmptyMap
    /\ ecShardMap = EmptyMap
    /\ sequence = 1
    /\ topoRet = NoTopoCall

NextTopo ==
    \/ \E v \in VolumeInfos, dn \in DataNodes : RegisterVolumeLayout(v, dn)
    \/ \E v \in VolumeInfos, dn \in DataNodes : UnRegisterVolumeLayout(v, dn)
    \/ \E count \in Counts, option \in VolumeGrowOptions :
          PickForWrite(count, option)
    \/ \E r \in EcShardReports : RegisterEcShards(r[1], r[2], r[3])
    \/ \E r \in EcShardReports : UnRegisterEcShards(r[1], r[2], r[3])

(***************************************************************************)
(* Data node synchronization                                               *)
(***************************************************************************)

\* master_pb.VolumeInformationMessage and VolumeShortInformationMessage,
\* identity fields only; the replica placement travels as one number whose
\* decimal digits are the three counts.
VolumeMessage(id, collection, rp, ttl) ==
    [Id |-> id, Collection |-> collection, ReplicaPlacement |-> rp, Ttl |-> ttl]

\* The records data nodes send: one for each volume of collection c1 in
\* VolumeInfos, and one whose replica placement cannot be converted.
BadMessage == VolumeMessage(2, "c1", 9, "")

SyncMessages ==
    { VolumeMessage(1, "c1", 0, ""), VolumeMessage(2, "c1", 1, ""), BadMessage }

\* The batches of a full sync: up to two different records in either order,
\* and three records with the bad one in the middle.
FullBatches ==
    {<<>>} \cup { <<a>> : a \in SyncMessages }
           \cup { ab \in SyncMessages \X SyncMessages : ab[1] # ab[2] }
           \cup { <<ab[1], BadMessage, ab[2]>> :
                     ab \in { x \in (SyncMessages \ {BadMessage})
                                      \X (SyncMessages \ {BadMessage}) :
                                x[1] # x[2] } }

\* The added and the removed list of an incremental sync: up to two different
\* records in either order.
ShortBatches ==
    {<<>>} \cup { <<a>> : a \in SyncMessages }
           \cup { ab \in SyncMessages \X SyncMessages : ab[1] # ab[2] }

\* NewReplicaPlacementFromByte: the three digits, an error when a digit is
\* not a count a replica placement takes (above 2).
NewReplicaPlacementFromByte(b) ==
    LET dc == b \div 100
        rack == (b \div 10) % 10
        same == b % 10
    IN  [rp |-> ReplicaPlacement(dc, rack, same),
         err |-> (dc > 2 \/ rack > 2 \/ same > 2)]

\* storage.NewVolumeInfo: the message as a VolumeInfo, or an error.
NewVolumeInfo(m) ==
    LET rp == NewReplicaPlacementFromByte(m.ReplicaPlacement)
    IN  [vi |-> VolumeInfo(m.Id, m.Collection, rp.rp, m.Ttl), err |-> rp.err]

\* storage.NewVolumeInfoFromShort: the same for a short message.
NewVolumeInfoFromShort(m) ==
    LET rp == NewReplicaPlacementFromByte(m.ReplicaPlacement)
    IN  [vi |-> VolumeInfo(m.Id, m.Collection, rp.rp, m.Ttl), err |-> rp.err]

\* The conversion loop that gives up at the first record it cannot convert.
RECURSIVE ConvertVolumes_StopAtBad(_)
ConvertVolumes_StopAtBad(volumes) ==
    IF volumes = <<>> THEN <<>>
    ELSE LET c == NewVolumeInfo(Head(volumes))
         IN  IF c.err THEN <<>>
             ELSE <<c.vi>> \o ConvertVolumes_StopAtBad(Tail(volumes))

\* The conversion loop of SyncDataNodeRegistration: every record that
\* converts, in the batch's order; the others are logged and left out.
RECURSIVE ConvertVolumes(_)
ConvertVolumes(volumes) ==
    IF volumes = <<>> THEN <<>>
    ELSE LET c == NewVolumeInfo(Head(volumes))
         IN  IF c.err THEN ConvertVolumes(Tail(volumes))
             ELSE <<c.vi>> \o ConvertVolumes(Tail(volumes))

\* The two conversion loops of IncrementalSyncDataNodeRegistration.
RECURSIVE ConvertShortVolumes(_)
ConvertShortVolumes(volumes) ==
    IF volumes = <<>> THEN <<>>
    ELSE LET c == NewVolumeInfoFromShort(Head(volumes))
         IN  IF c.err THEN ConvertShortVolumes(Tail(volumes))
             ELSE <<c.vi>> \o ConvertShortVolumes(Tail(volumes))

\* The elements of a list, and the volume ids of a set of volumes.
ListElems(list) == { list[i] : i \in 1..Len(list) }

IdsOf(volumes) == { v.Id : v \in volumes }

\* Every order in which the elements of a set can be listed (the order a Go
\* map is ranged over is not fixed).
Orders(set) ==
    { o \in [1..Cardinality(set) -> set] :
        \A i \in 1..Cardinality(set) : \A j \in 1..Cardinality(set) :
            o[i] = o[j] => i = j }

\* DataNode.UpdateVolumes: the node's set becomes the reported one; new are
\* the reported volumes it did not hold, in the report's order; deleted are
\* the held volumes that are not reported.
UpdateVolumes(held, actualVolumes) ==
    [volumes |-> ListElems(actualVolumes),
     new |-> SelectSeq(actualVolumes, LAMBDA v : v.Id \notin IdsOf(held)),
     deleted |-> { v \in held : v.Id \notin IdsOf(ListElems(actualVolumes)) }]

\* DataNode.DeltaUpdateVolumes: the added volumes join the node's set and the
\* removed ones leave it.
DeltaUpdateVolumes(held, newVolumes, deletedVolumes) ==
    { v \in held \cup ListElems(newVolumes) :
        v.Id \notin IdsOf(ListElems(deletedVolumes)) }

\* The collection map after Topology.RegisterVolumeLayout(v, dn).
RegisterVolumeLayoutIn(cm, v, dn) ==
    LET key == LayoutKey(v.ReplicaPlacement, v.Ttl)
        cm1 == GetVolumeLayout(cm, v.Collection, v.ReplicaPlacement, v.Ttl)
        vl == RegisterVolume(cm1[v.Collection][key], v.Id, dn)
    IN  MapSet(cm1, v.Collection, MapSet(cm1[v.Collection], key, vl))

\* The collection map after Topology.UnRegisterVolumeLayout(v, dn).
UnRegisterVolumeLayoutIn(cm, v, dn) ==
    LET key == LayoutKey(v.ReplicaPlacement, v.Ttl)
        cm1 == GetVolumeLayout(cm, v.Collection, v.ReplicaPlacement, v.Ttl)
        vl == UnRegisterVolume(cm1[v.Collection][key], v.Id, dn)
        cm2 == MapSet(cm1, v.Collection, MapSet(cm1[v.Collection], key, vl))
    IN  IF isEmpty(vl) THEN DeleteCollection(cm2, v.Collection) ELSE cm2

\* The loops that register, and unregister, a list of volumes in its order.
RECURSIVE RegisterAll(_, _, _)
RegisterAll(cm, list, dn) ==
    IF list = <<>> THEN cm
    ELSE RegisterAll(RegisterVolumeLayoutIn(cm, Head(list), dn), Tail(list), dn)

RECURSIVE UnRegisterAll(_, _, _)
UnRegisterAll(cm, list, dn) ==
    IF list = <<>> THEN cm
    ELSE UnRegisterAll(UnRegisterVolumeLayoutIn(cm, Head(list), dn),
                       Tail(list), dn)

\* Topology.SyncDataNodeRegistration on collection map cm and a data node
\* holding held: every way the call can end, one for each order of the
\* deleted volumes.  cm is the collection map afterwards, volumes the node's
\* set afterwards, new and deleted what the call returns.
FullSyncOutcomes(cm, held, volumes, dn) ==
    LET volumeInfos == ConvertVolumes(volumes)
        u == UpdateVolumes(held, volumeInfos)
        cm1 == RegisterAll(cm, u.new, dn)
    IN  { [cm |-> UnRegisterAll(cm1, o, dn), volumes |-> u.volumes,
           new |-> u.new, deleted |-> u.deleted] : o \in Orders(u.deleted) }

\* Topology.IncrementalSyncDataNodeRegistration, likewise; it returns
\* nothing.
IncrementalSyncOutcome(cm, held, newVolumes, deletedVolumes, dn) ==
    LET newVis == ConvertShortVolumes(newVolumes)
        oldVis == ConvertShortVolumes(deletedVolumes)
    IN  [cm |-> UnRegisterAll(RegisterAll(cm, newVis, dn), oldVis, dn),
         volumes |-> DeltaUpdateVolumes(held, newVis, oldVis)]

NoSync ==
    [op |-> "none", dn |-> "", volumes |-> <<>>, deletedVolumes |-> <<>>,
     new |-> <<>>, deleted |-> {}]

\* Topology.SyncDataNodeRegistration.
SyncDataNodeRegistration(volumes, dn) ==
    /\ \E out \in FullSyncOutcomes(collectionMap, dnVolumes[dn], volumes, dn) :
         /\ collectionMap' = out.cm
         /\ dnVolumes' = [dnVolumes EXCEPT ![dn] = out.volumes]
         /\ syncRet' = [op |-> "Sync", dn |-> dn, volumes |-> volumes,
                        deletedVolumes |-> <<>>, new |-> out.new,
                        deleted |-> out.deleted]
    /\ UNCHANGED <<ecShardMap, sequence, topoRet>>
    /\ UNCHANGED <<nmVars, vidVars, leadVars, raceVars, dcVars>>

\* Topology.IncrementalSyncDataNodeRegistration.
IncrementalSyncDataNodeRegistration(newVolumes, deletedVolumes, dn) ==
    LET out == IncrementalSyncOutcome(collectionMap, dnVolumes[dn],
                                      newVolumes, deletedVolumes, dn)
    IN  /\ collectionMap' = out.cm
        /\ dnVolumes' = [dnVolumes EXCEPT ![dn] = out.volumes]
        /\ syncRet' = [op |-> "IncrementalSync", dn |-> dn,
                       volumes |-> newVolumes,
                       deletedVolumes |-> deletedVolumes,
                       new |-> <<>>, deleted |-> {}]
        /\ UNCHANGED <<ecShardMap, sequence, topoRet>>
        /\ UNCHANGED <<nmVars, vidVars, leadVars, raceVars, dcVars>>

\* The added and removed lists of one incremental sync: two records at most
\* between them.
IncrementalInputs ==
    { ar \in ShortBatches \X ShortBatches : Len(ar[1]) + Len(ar[2]) <= 2 }

InitSync ==
    /\ dnVolumes = [dn \in DataNodes |-> {}]
    /\ syncRet = NoSync

NextSync ==
    \/ \E volumes \in FullBatches, dn \in DataNodes :
          SyncDataNodeRegistration(volumes, dn)
    \/ \E ar \in IncrementalInputs, dn \in DataNodes :
          IncrementalSyncDataNodeRegistration(ar[1], ar[2], dn)

(***************************************************************************)
(* RegisterVolumeLayout and UnRegisterVolumeLayout, statement by statement *)
(***************************************************************************)

\* Two requests run at the same time: one calls RegisterVolumeLayout, the
\* other UnRegisterVolumeLayout.  Each holds the collection and layout that
\* GetVolumeLayout gave it; when the collection is deleted from the map the
\* object lives on for the request that still holds it (orphan), out of
\* reach of Lookup.
RaceThreads == {"reg", "unreg"}

\* The volumes of the calls: two in one layout of collection c1, one in
\* another layout of it.
RaceVolumes ==
    { v \in VolumeInfos : v.Collection = "c1" }
      \cup { VolumeInfo(5, "c1", ReplicaPlacement(0, 0, 0), "") }

NoRaceCall ==
    [v |-> VolumeInfo(0, "", ReplicaPlacement(0, 0, 0), ""), dn |-> "",
     held |-> "none", orphan |-> EmptyMap]

\* The topologies the two calls start from: the new topology, or one with a
\* single volume registered on a single data node.
RaceBases ==
    {EmptyMap} \cup { RegisterVolumeLayoutIn(EmptyMap, v, dn) :
                         v \in RaceVolumes, dn \in DataNodes }

\* The collection object request t holds.
HeldCollection(t) ==
    IF raceCall[t].held = "live"
    THEN collectionMap[raceCall[t].v.Collection]
    ELSE raceCall[t].orphan

\* The collection map and the requests' holds after request t has put
\* layout vl under key into the collection object it holds.
RaceStoreMap(t, key, vl) ==
    IF raceCall[t].held = "live"
    THEN MapSet(collectionMap, raceCall[t].v.Collection,
                MapSet(HeldCollection(t), key, vl))
    ELSE collectionMap

RaceStoreCall(t, key, vl) ==
    IF raceCall[t].held = "live"
    THEN raceCall
    ELSE [raceCall EXCEPT ![t].orphan = MapSet(HeldCollection(t), key, vl)]

\* What a request keeps of its call once it has returned.
Returned(call) == [call EXCEPT !.held = "none", !.orphan = EmptyMap]

\* A request enters RegisterVolumeLayout (reg) or UnRegisterVolumeLayout
\* (unreg) with volume v and data node dn.
RaceCall(t, v, dn) ==
    /\ racePc[t] = "idle"
    /\ racePc' = [racePc EXCEPT ![t] = "get"]
    /\ raceCall' = [raceCall EXCEPT ![t] = [NoRaceCall EXCEPT !.v = v,
                                                              !.dn = dn]]
    /\ UNCHANGED topoVars
    /\ UNCHANGED <<nmVars, vidVars, leadVars, syncVars, raceBase, dcVars>>

\* t.GetVolumeLayout(v.Collection, v.ReplicaPlacement, v.Ttl).
RaceGetVolumeLayout(t) ==
    /\ racePc[t] = "get"
    /\ collectionMap' = GetVolumeLayout(collectionMap, raceCall[t].v.Collection,
                                        raceCall[t].v.ReplicaPlacement,
                                        raceCall[t].v.Ttl)
    /\ raceCall' = [raceCall EXCEPT ![t].held = "live"]
    /\ racePc' = [racePc EXCEPT ![t] = "layout"]
    /\ UNCHANGED <<ecShardMap, sequence, topoRet>>
    /\ UNCHANGED <<nmVars, vidVars, leadVars, syncVars, raceBase, dcVars>>

\* RegisterVolume(&v, dn) on the layout held, after which
\* RegisterVolumeLayout returns; UnRegisterVolume(&v, dn) on the layout held.
RaceLayoutCall(t) ==
    /\ racePc[t] = "layout"
    /\ LET v == raceCall[t].v
           key == LayoutKey(v.ReplicaPlacement, v.Ttl)
           vl == IF t = "reg"
                 THEN RegisterVolume(HeldCollection(t)[key], v.Id,
                                     raceCall[t].dn)
                 ELSE UnRegisterVolume(HeldCollection(t)[key], v.Id,
                                       raceCall[t].dn)
       IN  /\ collectionMap' = RaceStoreMap(t, key, vl)
           /\ raceCall' =
                IF t = "reg"
                THEN [RaceStoreCall(t, key, vl) EXCEPT ![t] = Returned(@)]
                ELSE RaceStoreCall(t, key, vl)
    /\ racePc' = [racePc EXCEPT ![t] = IF t = "reg" THEN "done" ELSE "isEmpty"]
    /\ UNCHANGED <<ecShardMap, sequence, topoRet>>
    /\ UNCHANGED <<nmVars, vidVars, leadVars, syncVars, raceBase, dcVars>>

\* if volumeLayout.isEmpty(): UnRegisterVolumeLayout goes on to delete the
\* collection, or returns.
RaceIsEmpty(t) ==
    /\ racePc[t] = "isEmpty"
    /\ LET v == raceCall[t].v
           empty == isEmpty(HeldCollection(t)[LayoutKey(v.ReplicaPlacement,
                                                        v.Ttl)])
       IN  /\ racePc' = [racePc EXCEPT ![t] = IF empty THEN "delete"
                                              ELSE "done"]
           /\ raceCall' = IF empty THEN raceCall
                          ELSE [raceCall EXCEPT ![t] = Returned(@)]
    /\ UNCHANGED topoVars
    /\ UNCHANGED <<nmVars, vidVars, leadVars, syncVars, raceBase, dcVars>>

\* t.DeleteCollection(v.Collection): the name leaves the map, with whatever
\* collection object is under it; a request that holds that object keeps it.
RaceDeleteCollection(t) ==
    /\ racePc[t] = "delete"
    /\ LET name == raceCall[t].v.Collection
       IN  /\ collectionMap' = DeleteCollection(collectionMap, name)
           /\ raceCall' =
                [u \in RaceThreads |->
                   IF u = t THEN Returned(raceCall[u])
                   ELSE IF raceCall[u].held = "live"
                           /\ raceCall[u].v.Collection = name
                        THEN [raceCall[u] EXCEPT !.held = "orphan",
                                                 !.orphan = collectionMap[name]]
                        ELSE raceCall[u]]
    /\ racePc' = [racePc EXCEPT ![t] = "done"]
    /\ UNCHANGED <<ecShardMap, sequence, topoRet>>
    /\ UNCHANGED <<nmVars, vidVars, leadVars, syncVars, raceBase, dcVars>>

InitRace ==
    /\ racePc = [t \in RaceThreads |-> "idle"]
    /\ raceCall = [t \in RaceThreads |-> NoRaceCall]

\* The two calls start from any topology of RaceBases; raceBase keeps it.
InitRaceTopo ==
    /\ collectionMap \in RaceBases
    /\ raceBase = collectionMap
    /\ ecShardMap = EmptyMap
    /\ sequence = 1
    /\ topoRet = NoTopoCall

NextRace ==
    \/ \E t \in RaceThreads, v \in RaceVolumes, dn \in DataNodes :
          RaceCall(t, v, dn)
    \/ \E t \in RaceThreads : RaceGetVolumeLayout(t)
    \/ \E t \in RaceThreads : RaceLayoutCall(t)
    \/ \E t \in RaceThreads : RaceIsEmpty(t)
    \/ \E t \in RaceThreads : RaceDeleteCollection(t)

(***************************************************************************)
(* Topology: the data center level                                         *)
(***************************************************************************)

\* The requests that call GetOrCreateDataCenter, and the names they ask for.
DcThreads == {"p", "q"}

DcNames == {"dc1", "dc2"}

\* DataCenter objects are told apart by the order of their creation; no more
\* than MaxDataCenters are created.
MaxDataCenters == 3

NoDcCall == [name |-> "", dc |-> 0, existed |-> FALSE]

NoDcRet == [name |-> "", dc |-> 0, existed |-> FALSE, created |-> FALSE]

\* The requests that have created a DataCenter or may still do so.
DcInFlight == { t \in DcThreads : dcPc[t] # "idle" }

\* NodeImpl.LinkChildNode: the node is put under its id unless a child with
\* that id is there.
LinkChildNode(c, id, node) == IF id \in DOMAIN c THEN c ELSE MapSet(c, id, node)

\* A request enters GetOrCreateDataCenter(dcName).
DcCall(t, dcName) ==
    /\ dcPc[t] = "idle"
    /\ dcCreated + Cardinality(DcInFlight) < MaxDataCenters
    /\ dcPc' = [dcPc EXCEPT ![t] = "children"]
    /\ dcCur' = [dcCur EXCEPT ![t] = [name |-> dcName, dc |-> 0,
                                      existed |-> dcName \in DOMAIN children]]
    /\ UNCHANGED <<children, dcCreated, dcRet, dcReturned>>
    /\ UNCHANGED <<nmVars, topoVars, vidVars, leadVars, syncVars, raceVars>>

\* The loop over t.Children(): a child with the name is returned, otherwise
\* the call goes on to create one.
DcChildren(t) ==
    /\ dcPc[t] = "children"
    /\ LET dcName == dcCur[t].name
       IN  IF dcName \in DOMAIN children
           THEN /\ dcPc' = [dcPc EXCEPT ![t] = "idle"]
                /\ dcRet' = [dcRet EXCEPT ![t] =
                               [name |-> dcName, dc |-> children[dcName],
                                existed |-> dcCur[t].existed,
                                created |-> FALSE]]
                /\ dcReturned' = [dcReturned EXCEPT ![dcName] =
                                    @ \cup {children[dcName]}]
                /\ dcCur' = [dcCur EXCEPT ![t] = NoDcCall]
           ELSE /\ dcPc' = [dcPc EXCEPT ![t] = "new"]
                /\ UNCHANGED <<dcRet, dcReturned, dcCur>>
    /\ UNCHANGED <<children, dcCreated>>
    /\ UNCHANGED <<nmVars, topoVars, vidVars, leadVars, syncVars, raceVars>>

\* dc := NewDataCenter(dcName).
DcNew(t) ==
    /\ dcPc[t] = "new"
    /\ dcCreated' = dcCreated + 1
    /\ dcCur' = [dcCur EXCEPT ![t].dc = dcCreated + 1]
    /\ dcPc' = [dcPc EXCEPT ![t] = "link"]
    /\ UNCHANGED <<children, dcRet, dcReturned>>
    /\ UNCHANGED <<nmVars, topoVars, vidVars, leadVars, syncVars, raceVars>>

\* t.LinkChildNode(dc); return dc.
DcLink(t) ==
    /\ dcPc[t] = "link"
    /\ children' = LinkChildNode(children, dcCur[t].name, dcCur[t].dc)
    /\ dcRet' = [dcRet EXCEPT ![t] =
                   [name |-> dcCur[t].name, dc |-> dcCur[t].dc,
                    existed |-> dcCur[t].existed, created |-> TRUE]]
    /\ dcReturned' = [dcReturned EXCEPT ![dcCur[t].name] = @ \cup {dcCur[t].dc}]
    /\ dcCur' = [dcCur EXCEPT ![t] = NoDcCall]
    /\ dcPc' = [dcPc EXCEPT ![t] = "idle"]
    /\ UNCHANGED dcCreated
    /\ UNCHANGED <<nmVars, topoVars, vidVars, leadVars, syncVars, raceVars>>

InitDc ==
    /\ children = EmptyMap
    /\ dcCreated = 0
    /\ dcPc = [t \in DcThreads |-> "idle"]
    /\ dcCur = [t \in DcThreads |-> NoDcCall]
    /\ dcRet = [t \in DcThreads |-> NoDcRet]
    /\ dcReturned = [n \in DcNames |-> {}]

NextDc ==
    \/ \E t \in DcThreads, dcName \in DcNames : DcCall(t, dcName)
    \/ \E t \in DcThreads : DcChildren(t)
    \/ \E t \in DcThreads : DcNew(t)
    \/ \E t \in DcThreads : DcLink(t)

(***************************************************************************)
(* Volume id allocation                                                    *)
(***************************************************************************)

\* The topology authorities of the cluster, and the requests that call
\* NextVolumeId on them.
Replicas == {"m1", "m2"}

Callers == {"a", "b"}

\* Volume ids are allocated up to here.
MaxVid == 3

\* What NextVolumeId returns.
VidResult(id, err) == [id |-> id, err |-> err]

\* VolumeId.Next.
VidNext(vid) == vid + 1

\* Topology.UpAdjustMaxVolumeId, which applying a MaxVolumeIdCommand calls.
UpAdjustMaxVolumeId(max, vid) == IF max < vid THEN vid ELSE max

\* RaftServer.Do(NewMaxVolumeIdCommand(next)) on replica r: how it can end.
\* Only the leader's proposal can be accepted, and the group accepts at most
\* one proposal per volume id; any proposal can fail.
RaftDoOutcomes(r, next) ==
    IF raftLeader = r /\ next \notin accepted
    THEN {"accepted", "failed"}
    ELSE {"failed"}

\* Topology.IsLeader on replica r: a raft server is attached and its state
\* is raft.Leader.
IsLeader(r) ==
    IF r \in raftAttached THEN raftLeader = r ELSE FALSE

\* NextVolumeId returning next whatever RaftServer.Do answered.
NextVolumeIdReturn_IgnoreErr(next, doErr) == VidResult(next, "nil")

\* NextVolumeId returning the error together with the id it proposed.
NextVolumeIdReturn_KeepId(next, doErr) ==
    IF doErr THEN VidResult(next, "raft") ELSE VidResult(next, "nil")

\* The two returns of NextVolumeId: (0, err) when RaftServer.Do failed,
\* (next, nil) otherwise.
NextVolumeIdReturn(next, doErr) ==
    IF doErr THEN VidResult(0, "raft") ELSE VidResult(next, "nil")

\* NextVolumeId, first two statements: read the maximum, compute next.
NextVolumeIdRead(c, r) ==
    /\ callPc[c] = "idle"
    /\ VidNext(maxVolumeId[r]) <= MaxVid
    /\ callOn' = [callOn EXCEPT ![c] = r]
    /\ callNext' = [callNext EXCEPT ![c] = VidNext(maxVolumeId[r])]
    /\ callPc' = [callPc EXCEPT ![c] = "submit"]
    /\ submits' = [submits EXCEPT ![c] = 0]
    /\ lastDo' = [lastDo EXCEPT ![c] = "none"]
    /\ UNCHANGED <<maxVolumeId, raftAttached, raftLeader, accepted, callRet,
                   granted>>
    /\ UNCHANGED <<nmVars, topoVars, leadVars, syncVars, raceVars, dcVars>>

\* NextVolumeId, the rest: RaftServer.Do and the return.  With no raft
\* server attached the call on the nil interface panics.  An accepted
\* command is applied to the leader's topology before Do returns.
NextVolumeIdDo(c) ==
    /\ callPc[c] = "submit"
    /\ callPc' = [callPc EXCEPT ![c] = "idle"]
    /\ IF callOn[c] \notin raftAttached
       THEN /\ callRet' = [callRet EXCEPT ![c] = VidResult(0, "panic")]
            /\ UNCHANGED <<maxVolumeId, accepted, lastDo, submits, granted>>
       ELSE \E outcome \in RaftDoOutcomes(callOn[c], callNext[c]) :
              LET ret == NextVolumeIdReturn(callNext[c], outcome = "failed")
              IN  /\ lastDo' = [lastDo EXCEPT ![c] = outcome]
                  /\ submits' = [submits EXCEPT ![c] = @ + 1]
                  /\ callRet' = [callRet EXCEPT ![c] = ret]
                  /\ IF outcome = "accepted"
                     THEN /\ accepted' = accepted \cup {callNext[c]}
                          /\ maxVolumeId' =
                               [maxVolumeId EXCEPT ![callOn[c]] =
                                  UpAdjustMaxVolumeId(@, callNext[c])]
                     ELSE UNCHANGED <<accepted, maxVolumeId>>
                  /\ granted' =
                       IF ret.err = "nil"
                       THEN [granted EXCEPT ![ret.id] =
                               IF @ < 2 THEN @ + 1 ELSE @]
                       ELSE granted
    /\ UNCHANGED <<raftAttached, raftLeader, callOn, callNext>>
    /\ UNCHANGED <<nmVars, topoVars, leadVars, syncVars, raceVars, dcVars>>

\* A replica applies an accepted command it has not applied yet.
ApplyCommand(r) ==
    /\ \E vid \in accepted :
         /\ vid > maxVolumeId[r]
         /\ maxVolumeId' = [maxVolumeId EXCEPT ![r] =
                              UpAdjustMaxVolumeId(@, vid)]
    /\ UNCHANGED <<raftAttached, raftLeader, accepted, callPc, callOn,
                   callNext, callRet, lastDo, submits, granted>>
    /\ UNCHANGED <<nmVars, topoVars, leadVars, syncVars, raceVars, dcVars>>

\* The master sets Topology.RaftServer once its raft server is up.
AttachRaftServer(r) ==
    /\ r \notin raftAttached
    /\ raftAttached' = raftAttached \cup {r}
    /\ UNCHANGED <<maxVolumeId, raftLeader, accepted, callPc, callOn,
                   callNext, callRet, lastDo, submits, granted>>
    /\ UNCHANGED <<nmVars, topoVars, leadVars, syncVars, raceVars, dcVars>>

\* The group elects replica r, or loses its leader.
LeaderChange(r) ==
    /\ r # raftLeader
    /\ r \in raftAttached \cup {"none"}
    /\ raftLeader' = r
    /\ UNCHANGED <<maxVolumeId, raftAttached, accepted, callPc, callOn,
                   callNext, callRet, lastDo, submits, granted>>
    /\ UNCHANGED <<nmVars, topoVars, leadVars, syncVars, raceVars, dcVars>>

InitVid ==
    /\ maxVolumeId = [r \in Replicas |-> 0]
    /\ raftAttached = {}
    /\ raftLeader = "none"
    /\ accepted = {}
    /\ callPc = [c \in Callers |-> "idle"]
    /\ callOn = [c \in Callers |-> "m1"]
    /\ callNext = [c \in Callers |-> 0]
    /\ callRet = [c \in Callers |-> VidResult(0, "none")]
    /\ lastDo = [c \in Callers |-> "none"]
    /\ submits = [c \in Callers |-> 0]
    /\ granted = [vid \in 0..MaxVid |-> 0]

NextVid ==
    \/ \E c \in Callers, r \in Replicas : NextVolumeIdRead(c, r)
    \/ \E c \in Callers : NextVolumeIdDo(c)
    \/ \E r \in Replicas : ApplyCommand(r)
    \/ \E r \in Replicas : AttachRaftServer(r)
    \/ \E r \in Replicas \cup {"none"} : LeaderChange(r)

(***************************************************************************)
(* Leadership queries                                                      *)
(***************************************************************************)

\* What a replica's raft server can report as the leader: a replica's name,
\* or "" for no leader.
LeaderNames == Replicas \cup {""}

\* What Leader returns.
LeaderResult(l, err) == [l |-> l, err |-> err]

NoLeadCall ==
    [op |-> "none", on |-> "", attached |-> FALSE, state |-> FALSE,
     reported |-> "", is |-> FALSE, ret |-> LeaderResult("", "none")]

\* RaftServer.Name on replica r.
Name(r) == r

\* Leader that answers a plain error when the group reports no leader.
Leader_NoFallback(r) ==
    IF r \notin raftAttached
    THEN LeaderResult("", "not ready")
    ELSE IF knownLeader[r] = ""
         THEN LeaderResult("", "not initialized")
         ELSE LeaderResult(knownLeader[r], "nil")

\* Topology.Leader on replica r.
Leader(r) ==
    IF r \notin raftAttached
    THEN LeaderResult("", "not ready")
    ELSE IF knownLeader[r] = ""
         THEN LeaderResult(Name(r), "not initialized")
         ELSE LeaderResult(knownLeader[r], "nil")

\* A call of IsLeader on replica r.
CallIsLeader(r) ==
    /\ leadRet' = [NoLeadCall EXCEPT !.op = "IsLeader", !.on = r,
                                     !.attached = (r \in raftAttached),
                                     !.state = (raftLeader = r),
                                     !.reported = knownLeader[r],
                                     !.is = IsLeader(r)]
    /\ UNCHANGED knownLeader
    /\ UNCHANGED <<nmVars, topoVars, vidVars, syncVars, raceVars, dcVars>>

\* A call of Leader on replica r.
CallLeader(r) ==
    /\ leadRet' = [NoLeadCall EXCEPT !.op = "Leader", !.on = r,
                                     !.attached = (r \in raftAttached),
                                     !.state = (raftLeader = r),
                                     !.reported = knownLeader[r],
                                     !.ret = Leader(r)]
    /\ UNCHANGED knownLeader
    /\ UNCHANGED <<nmVars, topoVars, vidVars, syncVars, raceVars, dcVars>>

\* The raft server of replica r learns who leads the group, or that nobody
\* does.
LearnLeader(r, l) ==
    /\ r \in raftAttached
    /\ l # knownLeader[r]
    /\ l \in raftAttached \cup {""}
    /\ knownLeader' = [knownLeader EXCEPT ![r] = l]
    /\ UNCHANGED leadRet
    /\ UNCHANGED <<nmVars, topoVars, vidVars, syncVars, raceVars, dcVars>>

InitLead ==
    /\ knownLeader = [r \in Replicas |-> ""]
    /\ leadRet = NoLeadCall

NextLead ==
    \/ \E r \in Replicas : AttachRaftServer(r)
    \/ \E r \in Replicas \cup {"none"} : LeaderChange(r)
    \/ \E r \in Replicas, l \in LeaderNames : LearnLeader(r, l)
    \/ \E r \in Replicas : CallIsLeader(r)
    \/ \E r \in Replicas : CallLeader(r)

Init ==
    /\ InitIndex /\ InitTopo /\ InitVid /\ InitLead /\ InitSync /\ InitRace
    /\ InitDc
    /\ raceBase = EmptyMap

SpecIndex == Init /\ [][NextIndex]_vars

SpecTopo == Init /\ [][NextTopo]_vars

SpecVid == Init /\ [][NextVid]_vars

SpecLead == Init /\ [][NextLead]_vars

\* A closed needle map with any short index file and any store beside it.
InitWithStaleStore ==
    /\ InitRebuild /\ InitTopo /\ InitVid /\ InitLead /\ InitSync /\ InitRace
    /\ InitDc
    /\ raceBase = EmptyMap

SpecRebuild == InitWithStaleStore /\ [][NextRebuild]_vars

SpecSync == Init /\ [][NextSync]_vars

\* Two requests about to call, on any topology of RaceBases.
InitWithRaceBase ==
    /\ InitIndex /\ InitRaceTopo /\ InitVid /\ InitLead /\ InitSync /\ InitRace
    /\ InitDc

SpecRace == InitWithRaceBase /\ [][NextRace]_vars

SpecDc == Init /\ [][NextDc]_vars

(***************************************************************************)
(* Topology: properties                                                    *)
(***************************************************************************)

\* The data nodes on a list.
ListNodes(list) == { list[i] : i \in 1..Len(list) }

\* C6 (placement exclusivity): a volume registered with one data node and
\* then with a second one (same collection, placement and TTL) is looked up
\* on exactly those two; unregistering it from one of two leaves exactly the
\* other.
C6_PlacementExclusivity ==
    \A d1 \in DataNodes : \A d2 \in DataNodes \ {d1} :
        /\ (topoRet.op = "Register" /\ topoRet.before = Nil
                /\ topoRet.dn = d1) =>
               Lookup(topoRet.collection, topoRet.id) = { <<d1>> }
        /\ (topoRet.op = "Register" /\ topoRet.before = <<d1>>
                /\ topoRet.dn = d2) =>
               \A list \in Lookup(topoRet.collection, topoRet.id) :
                   Len(list) = 2 /\ ListNodes(list) = {d1, d2}
        /\ (topoRet.op = "UnRegister" /\ ListNodes(topoRet.before) = {d1, d2}
                /\ topoRet.dn = d1) =>
               Lookup(topoRet.collection, topoRet.id) = { <<d2>> }

\* A volume was registered with dn1, then with dn2, then unregistered from
\* dn1, and is looked up on dn2 alone.
C6_Witness ==
    /\ topoRet.op = "UnRegister"
    /\ topoRet.before = <<"dn1", "dn2">>
    /\ topoRet.dn = "dn1"
    /\ Lookup(topoRet.collection, topoRet.id) = { <<"dn2">> }

\* C7 (collection garbage collection): after the unregistration that
\* removed the last replica a collection held in any of its layouts, the
\* collection is not in the collection map's listing, and not in the full
\* listing when no erasure-coded shard entry names it.
C7_CollectionGarbageCollection ==
    (topoRet.op = "UnRegister" /\ topoRet.wasLast) =>
        /\ topoRet.collection \notin ListCollections(TRUE, FALSE)
        /\ (\A vid \in DOMAIN ecShardMap :
                ecShardMap[vid].Collection # topoRet.collection) =>
               topoRet.collection \notin ListCollections(TRUE, TRUE)

\* The last replica of collection c1 was just unregistered and no shard
\* entry names c1.
C7_Witness ==
    /\ topoRet.op = "UnRegister"
    /\ topoRet.wasLast
    /\ topoRet.collection = "c1"
    /\ DOMAIN ecShardMap = {}
    /\ "c1" \notin ListCollections(TRUE, TRUE)

\* The non-empty replica lists the collections consulted for (collection,
\* vid) hold: every collection for the empty name, else the named one.
FoundInCollections(collection, vid) ==
    LET consulted == IF collection = "" THEN DOMAIN collectionMap
                     ELSE {collection} \cap DOMAIN collectionMap
    IN  { list \in UNION { { collectionMap[c][key][vid] :
                                key \in { k \in DOMAIN collectionMap[c] :
                                            vid \in DOMAIN collectionMap[c][k] } } :
                            c \in consulted } : list # Nil }

\* All shard locations recorded for vid, in one list.
AllShardLocations(vid) ==
    IF vid \in DOMAIN ecShardMap
    THEN ecShardMap[vid].Locations[0] \o ecShardMap[vid].Locations[1]
    ELSE Nil

\* C8 (lookup order): Lookup returns a non-empty replica list of the
\* collections it consults when there is one; whenever there is none, also
\* when the named collection exists without a replica of vid, it returns
\* the flattened shard locations of vid, which are empty only when neither
\* step finds anything.
C8_LookupOrder ==
    \A collection \in CollectionNames, vid \in VolumeIds :
        Lookup(collection, vid) =
            IF FoundInCollections(collection, vid) # {}
            THEN FoundInCollections(collection, vid)
            ELSE { AllShardLocations(vid) }

\* The volume layout a PickForWrite was asked about, and its replication
\* factor, from the call's record.
PickedLayout == collectionMap[topoRet.collection][topoRet.key]

PickedFactor == topoRet.key[1] + topoRet.key[2] + topoRet.key[3] + 1

\* C9 (no under-replicated pick): when every volume of the matching layout
\* has fewer replicas than the replication factor, PickForWrite returns an
\* error, no file id and no data node; an error never comes with a file id
\* or a data node; and a successful pick names a volume with at least as
\* many replicas as the replication factor, and the head of its list.
C9_NoUnderReplicatedPick ==
    topoRet.op = "PickForWrite" =>
        /\ (\A id \in DOMAIN PickedLayout :
                Len(PickedLayout[id]) < PickedFactor) =>
               topoRet.pick = PickResult(Nil, 0, "", "no writable")
        /\ topoRet.pick.err # "nil" =>
               /\ topoRet.pick.fid = Nil
               /\ topoRet.pick.dn = ""
               /\ topoRet.pick.count = 0
        /\ topoRet.pick.err = "nil" =>
               /\ topoRet.id \in DOMAIN PickedLayout
               /\ Len(PickedLayout[topoRet.id]) >= PickedFactor
               /\ topoRet.pick.fid[1] = topoRet.id
               /\ topoRet.pick.dn = PickedLayout[topoRet.id][1]

\* A pick failed on a layout of replication factor 2 whose only volume has
\* one replica.
C9_Witness ==
    /\ topoRet.op = "PickForWrite"
    /\ topoRet.pick.err = "no writable"
    /\ PickedFactor = 2
    /\ DOMAIN PickedLayout = {2}
    /\ Len(PickedLayout[2]) = 1

\* The step of an UnRegisterVolumeLayout that takes the last replica of the
\* last volume out of one layout, while volume w of another layout of the
\* same collection is registered: the collection is still listed and w is
\* looked up on the data nodes it was on.
C16_Step ==
    \A w \in VolumeInfos :
        (/\ topoRet'.op = "UnRegister"
         /\ topoRet'.before = <<topoRet'.dn>>
         /\ DOMAIN collectionMap[topoRet'.collection][topoRet'.key]
               = {topoRet'.id}
         /\ w.Collection = topoRet'.collection
         /\ LayoutKey(w.ReplicaPlacement, w.Ttl) # topoRet'.key
         /\ ReplicaList(collectionMap, w) # Nil) =>
            /\ w.Collection \in ListCollections(TRUE, FALSE)'
            /\ Lookup(w.Collection, w.Id)' = { ReplicaList(collectionMap, w) }

\* C16 (collection removal only with its last layout): unregistering the
\* last volume of one layout while another layout of the same collection
\* holds a registered volume W leaves the collection listed and W's data
\* nodes looked up.
C16_RemovalOnlyWithLastLayout == [][C16_Step]_vars

(***************************************************************************)
(* Data node synchronization: properties                                   *)
(***************************************************************************)

\* The records of a batch that convert, in the batch's order.
GoodRecords(batch) == SelectSeq(batch, LAMBDA m : ~NewVolumeInfo(m).err)

\* The record a data node sends for volume v.
MessageOf(v) ==
    VolumeMessage(v.Id, v.Collection,
                  100 * v.ReplicaPlacement.DiffDataCenterCount
                    + 10 * v.ReplicaPlacement.DiffRackCount
                    + v.ReplicaPlacement.SameRackCount,
                  v.Ttl)

\* The volumes the sync records stand for.
SyncVolumes == ListElems(ConvertVolumes(
                   << VolumeMessage(1, "c1", 0, ""),
                      VolumeMessage(2, "c1", 1, "") >>))

\* What a collection map says: its collections, and the data nodes of
\* every volume.
TopologyView(cm) ==
    [collections |-> DOMAIN cm,
     locations |-> [v \in SyncVolumes |-> ListNodes(ReplicaList(cm, v))]]

\* A sync step ends as the same call does on the batch without its bad
\* records, and touches no other data node's set.
C12_Step ==
    /\ syncRet'.op = "Sync" =>
          /\ [cm |-> collectionMap', volumes |-> dnVolumes'[syncRet'.dn],
              new |-> syncRet'.new, deleted |-> syncRet'.deleted]
               \in FullSyncOutcomes(collectionMap, dnVolumes[syncRet'.dn],
                                    GoodRecords(syncRet'.volumes), syncRet'.dn)
          /\ \A dn \in DataNodes \ {syncRet'.dn} : dnVolumes'[dn] = dnVolumes[dn]
    /\ syncRet'.op = "IncrementalSync" =>
          /\ [cm |-> collectionMap', volumes |-> dnVolumes'[syncRet'.dn]]
               = IncrementalSyncOutcome(collectionMap, dnVolumes[syncRet'.dn],
                                        GoodRecords(syncRet'.volumes),
                                        GoodRecords(syncRet'.deletedVolumes),
                                        syncRet'.dn)
          /\ \A dn \in DataNodes \ {syncRet'.dn} : dnVolumes'[dn] = dnVolumes[dn]

\* C12 (malformed record isolation): in the full and in the incremental
\* sync a record that does not convert is skipped, and the records before
\* and after it have exactly the effect they have in the batch without it.
C12_MalformedRecordIsolation == [][C12_Step]_vars

\* A full sync of volume 1, a bad record, volume 2 has registered both
\* volumes with the data node.
C12_Witness ==
    /\ syncRet.op = "Sync"
    /\ syncRet.volumes = << VolumeMessage(1, "c1", 0, ""), BadMessage,
                            VolumeMessage(2, "c1", 1, "") >>
    /\ ListElems(syncRet.new) = SyncVolumes
    /\ \A v \in SyncVolumes :
           syncRet.dn \in ListNodes(ReplicaList(collectionMap, v))

\* A full sync step: new and deleted are the two differences between the
\* report and the node's previous set; the node is a location of every new
\* volume and of no deleted one; the volumes in both keep their locations.
C13_Step ==
    syncRet'.op = "Sync" =>
        LET dn == syncRet'.dn
            report == ListElems(ConvertVolumes(syncRet'.volumes))
            prev == dnVolumes[dn]
        IN  /\ ListElems(syncRet'.new) = report \ prev
            /\ syncRet'.deleted = prev \ report
            /\ \A v \in report \ prev :
                   dn \in ListNodes(ReplicaList(collectionMap', v))
            /\ \A v \in prev \ report :
                   dn \notin ListNodes(ReplicaList(collectionMap', v))
            /\ \A v \in prev \cap report :
                   ReplicaList(collectionMap', v) = ReplicaList(collectionMap, v)

\* C13 (full sync reconciliation): a full sync returns as new the reported
\* volumes the node did not hold and as deleted the held ones not reported,
\* makes the node a location of every new volume and of no deleted one,
\* and leaves the locations of the volumes in both as they were.
C13_FullSyncReconciliation == [][C13_Step]_vars

\* An incremental sync step leaves the collections and every volume's data
\* nodes as some full sync of the complete inventory (previous set plus
\* added minus removed) does from the same state.
C19_Step ==
    syncRet'.op = "IncrementalSync" =>
        LET dn == syncRet'.dn
            inventory == DeltaUpdateVolumes(
                             dnVolumes[dn],
                             ConvertShortVolumes(syncRet'.volumes),
                             ConvertShortVolumes(syncRet'.deletedVolumes))
        IN  \E o \in Orders({ MessageOf(v) : v \in inventory }) :
                \E out \in FullSyncOutcomes(collectionMap, dnVolumes[dn], o, dn) :
                    TopologyView(out.cm) = TopologyView(collectionMap')

\* C19 (incremental sync equals full sync): from the same state the
\* incremental sync with lists added and removed and the full sync with the
\* complete inventory leave the same locations for every volume and the
\* same collections.
C19_IncrementalEqualsFull == [][C19_Step]_vars

(***************************************************************************)
(* Volume id allocation: properties                                        *)
(***************************************************************************)

\* C4 (volume id uniqueness): no volume id is returned successfully by more
\* than one NextVolumeId call, whatever replicas the calls run on and
\* however their steps interleave; in particular two callers whose last
\* calls both succeeded hold different ids.
C4_VolumeIdUniqueness ==
    /\ \A vid \in 0..MaxVid : granted[vid] <= 1
    /\ \A c1 \in Callers : \A c2 \in Callers \ {c1} :
           (callPc[c1] = "idle" /\ callPc[c2] = "idle"
              /\ callRet[c1].err = "nil" /\ callRet[c2].err = "nil") =>
               callRet[c1].id # callRet[c2].id

\* Two calls on the same replica read the same maximum before either
\* submitted (b still holds the id a proposed, and a's proposal was accepted
\* and applied there, so b read before a submitted); a has returned that id.
C4_Witness ==
    /\ callPc["a"] = "idle"
    /\ callPc["b"] = "submit"
    /\ callOn["a"] = callOn["b"]
    /\ callNext["a"] = callNext["b"]
    /\ lastDo["a"] = "accepted"
    /\ callRet["a"] = VidResult(callNext["a"], "nil")
    /\ granted[callNext["a"]] = 1

\* A call whose submission failed has returned the zero id with the error,
\* after one submission.
C10_Returns ==
    \A c \in Callers :
        (callPc[c] = "idle" /\ lastDo[c] = "failed") =>
            /\ callRet[c] = VidResult(0, "raft")
            /\ submits[c] = 1

\* The step in which a call's submission fails changes no replica's maximum
\* volume id and nothing the group has accepted.
C10_Step ==
    \A c \in Callers :
        (callPc[c] = "submit" /\ lastDo'[c] = "failed") =>
            /\ maxVolumeId' = maxVolumeId
            /\ accepted' = accepted
            /\ granted' = granted

\* C10 (consensus failure of allocation): when the submission of
\* NextVolumeId fails the call returns an error and the zero id, has made
\* exactly one submission, and the maximum volume id is as it was.
C10_ConsensusFailure == []C10_Returns /\ [][C10_Step]_vars

\* A call made on the leader had its proposal fail and has returned.
C10_Witness ==
    \E c \in Callers :
        /\ callPc[c] = "idle"
        /\ lastDo[c] = "failed"
        /\ callOn[c] = raftLeader
        /\ callRet[c] = VidResult(0, "raft")

\* A NextVolumeId call that submits on a replica where IsLeader() is false
\* returns the zero id with an error value.
C11_Step ==
    \A c \in Callers :
        (callPc[c] = "submit" /\ callPc'[c] = "idle" /\ ~IsLeader(callOn[c])) =>
            /\ callRet'[c].id = 0
            /\ callRet'[c].err = "raft"
            /\ granted' = granted

\* C11 (leader-only allocation): a NextVolumeId call on a replica that is
\* not the leader, a replica with no raft server attached included, never
\* returns a volume id; it returns an error value.
C11_LeaderOnlyAllocation == [][C11_Step]_vars

(***************************************************************************)
(* Leadership queries: properties                                          *)
(***************************************************************************)

\* C14 (leadership queries): IsLeader answers true exactly when a raft
\* server is attached and its state is leader, so false when none is
\* attached; Leader answers ("", not ready) when none is attached, (the
\* replica's own name, not initialized) when the raft server reports no
\* leader, and (the reported leader, no error) otherwise.
C14_LeadershipQueries ==
    /\ leadRet.op = "IsLeader" =>
            /\ leadRet.is <=> (leadRet.attached /\ leadRet.state)
            /\ ~leadRet.attached => ~leadRet.is
    /\ leadRet.op = "Leader" =>
            /\ ~leadRet.attached =>
                   leadRet.ret = LeaderResult("", "not ready")
            /\ (leadRet.attached /\ leadRet.reported = "") =>
                   leadRet.ret = LeaderResult(leadRet.on, "not initialized")
            /\ (leadRet.attached /\ leadRet.reported # "") =>
                   leadRet.ret = LeaderResult(leadRet.reported, "nil")

\* Leader was called on a replica whose raft server is attached and
\* reports no leader, and answered the replica's own name with the error.
C14_Witness ==
    /\ leadRet.op = "Leader"
    /\ leadRet.attached
    /\ leadRet.reported = ""
    /\ leadRet.ret = LeaderResult(leadRet.on, "not initialized")

(***************************************************************************)
(* Needle map: properties                                                  *)
(***************************************************************************)

\* The store rebuilt from nothing by a complete replay of the index file.
RebuiltStore ==
    generateLevelDbFile(EmptyDb, indexFile, FALSE, Len(indexFile), {})

\* Key k's last record in the index file is a live one: neither a tombstone
\* nor a zero-offset record.
LastRecordLive(k) ==
    \E i \in 1..Len(indexFile) :
        /\ indexFile[i].Key = k
        /\ \A j \in (i + 1)..Len(indexFile) : indexFile[j].Key # k
        /\ indexFile[i].Offset # 0
        /\ indexFile[i].Size # TombstoneFileSize

\* C1 (log-is-truth): whenever the needle map is at rest and every store
\* write since the store was last in step with the index file has succeeded,
\* the store rebuilt from the index file answers every Get as the live
\* store does.
C1_LogIsTruth ==
    (pc = "idle" /\ ~faulty) =>
        \A k \in NeedleIds : Get(RebuiltStore, k) = Get(db, k)

\* The store's content is in the index file: every entry the store holds
\* is a record of the file.
C2_StoreInLog ==
    \A k \in NeedleIds :
        Get(db, k).ok =>
            \E i \in 1..Len(indexFile) :
                indexFile[i] = IdxEntry(k, Get(db, k).Offset, Get(db, k).Size)

\* One step of a Put or Delete: the store changes only in the step after the
\* append, only at the appended record's key, with the index file already
\* holding the record; the append step leaves the store alone; a failed
\* append returns the error with the store and the index file as they were.
C2_Step ==
    /\ (pc # "closed" /\ db' # db) =>
            /\ pc = "store"
            /\ indexFile' = indexFile
            /\ Len(indexFile) > 0
            /\ indexFile[Len(indexFile)] =
                    IdxEntry(cur.Key, cur.Offset, cur.Size)
            /\ \A k \in NeedleIds \ {cur.Key} : db'[k] = db[k]
    /\ (pc = "append" /\ pc' = "store") =>
            /\ indexFile' = Append(indexFile,
                                   IdxEntry(cur.Key, cur.Offset, cur.Size))
            /\ db' = db
    /\ (pc = "append" /\ pc' # "store") =>
            /\ nmRet'.err = "index"
            /\ nmRet'.op = cur.op
            /\ db' = db
            /\ indexFile' = indexFile

\* C2 (write-ahead ordering): in Put and Delete the record is appended
\* before the store is changed, a failed append returns an error and leaves
\* store and index file untouched, and in every state, the intermediate
\* ones included, what the store holds is already in the index file.
C2_WriteAheadOrdering == []C2_StoreInLog /\ [][C2_Step]_vars

\* A Put has appended its record and has not yet written the store.
C2_Witness ==
    /\ pc = "store"
    /\ cur.op = "Put"
    /\ indexFile[Len(indexFile)] = IdxEntry(cur.Key, cur.Offset, cur.Size)
    /\ Get(db, cur.Key) # NeedleValue(cur.Offset, cur.Size)

\* C3 (freshness gate): a needle map that was opened with a store that
\* failed the freshness check serves the store a complete replay of the
\* index file leaves.
C3_FreshnessGate ==
    (pc = "idle" /\ nmRet = Ret("open", "nil") /\ openInfo.stale) =>
        db = RebuiltStore

\* The index file of the tombstone scenario.
ScenarioLog ==
    << IdxEntry(42, 100, 50), IdxEntry(43, 200, 30),
       IdxEntry(42, 100, TombstoneFileSize) >>

\* C5 (tombstone precedence): after a Delete that returned no error the
\* key is not found in the live store; in the store rebuilt from the index
\* file a key is found exactly when its last record is live, so a key whose
\* last record is a tombstone is not found; and the log Put(42,100,50),
\* Put(43,200,30), Delete(42,100) rebuilds to 42 not found, 43 = (200, 30).
C5_TombstonePrecedence ==
    /\ (pc = "idle" /\ nmRet = Ret("Delete", "nil")) =>
            /\ Len(indexFile) > 0
            /\ indexFile[Len(indexFile)].Size = TombstoneFileSize
            /\ ~Get(db, indexFile[Len(indexFile)].Key).ok
            /\ ~Get(RebuiltStore, indexFile[Len(indexFile)].Key).ok
    /\ \A k \in NeedleIds : Get(RebuiltStore, k).ok <=> LastRecordLive(k)
    /\ LET d == generateLevelDbFile(EmptyDb, ScenarioLog, FALSE,
                                    Len(ScenarioLog), {})
       IN  Get(d, 42) = NotFound /\ Get(d, 43) = NeedleValue(200, 30)

\* Put(42,100,50), Put(43,200,30), Delete(42,100) have run, each returning
\* no error.
C5_Witness ==
    /\ pc = "idle"
    /\ nmRet = Ret("Delete", "nil")
    /\ indexFile = ScenarioLog
    /\ Get(db, 42) = NotFound
    /\ Get(db, 43) = NeedleValue(200, 30)

\* The bytes the counters say are live: put minus deleted.
ContentSize(mm) == mm.FileByteCounter - mm.DeletionByteCounter

\* The step of a Put that accounts for it: the old size is the one Get
\* returns before the append; the file counter goes up by one; the live
\* bytes change by new size minus old size; an overwritten entry is one
\* more deletion and its old size more deleted bytes.
C15_Step ==
    (pc = "idle" /\ pc' = "append" /\ cur'.op = "Put") =>
        LET old == Get(db, cur'.Key)
            s1 == IF old.ok THEN old.Size ELSE 0
        IN  /\ cur'.oldSize = s1
            /\ mapMetric'.FileCounter = mapMetric.FileCounter + 1
            /\ ContentSize(mapMetric') - ContentSize(mapMetric)
                  = cur'.Size - s1
            /\ mapMetric'.DeletionCounter =
                  mapMetric.DeletionCounter + (IF s1 > 0 THEN 1 ELSE 0)
            /\ mapMetric'.DeletionByteCounter =
                  mapMetric.DeletionByteCounter + s1

\* C15 (overwrite accounting): a Put over an existing entry of size s1
\* changes the size accounting by the new size minus s1, s1 being what Get
\* returned before the append; the file counter counts every put, and the
\* deletion counter and the deleted bytes account for the overwritten s1.
C15_OverwriteAccounting == [][C15_Step]_vars

\* Put(42,100,50) then Put(42,200,30) have run on a new needle map: two
\* files, 80 bytes put, one deletion of 50 bytes.
C15_Witness ==
    /\ pc = "idle"
    /\ nmRet = Ret("Put", "nil")
    /\ indexFile = << IdxEntry(42, 100, 50), IdxEntry(42, 200, 30) >>
    /\ mapMetric = [FileCounter |-> 2, FileByteCounter |-> 80,
                    DeletionCounter |-> 1, DeletionByteCounter |-> 50]

\* C17 (rebuild is a full regeneration): after an open whose rebuild ran
\* to the end, the store is exactly the replay of the index file, whatever
\* it held before; a key with no live last record in the file is not found.
C17_RebuildIsFullRegeneration ==
    (pc = "idle" /\ nmRet = Ret("open", "nil") /\ openInfo.regenerated) =>
        /\ db = RebuiltStore
        /\ \A k \in NeedleIds : ~LastRecordLive(k) => ~Get(db, k).ok

\* The step in which a Put or Delete returns the append's error leaves the
\* counters as the call found them.
C18_Step ==
    (pc = "append" /\ pc' = "idle" /\ nmRet'.err = "index") =>
        mapMetric' = cur.before

\* C18 (metrics follow applied operations only): a Put or Delete that
\* fails at the index file append leaves every counter unchanged, so the
\* counters are those of the calls that did not fail.
C18_MetricsFollowApplied == [][C18_Step]_vars

(***************************************************************************)
(* Properties of concurrent Register / UnRegisterVolumeLayout              *)
(***************************************************************************)

\* The two calls are RegisterVolumeLayout(V2, dn) and
\* UnRegisterVolumeLayout(V1, dn') with V1 and V2 different volumes of one
\* collection, V1 was the only volume registered when they started, and
\* both have returned.
RaceOver ==
    /\ \A t \in RaceThreads : racePc[t] = "done"
    /\ raceCall["reg"].v.Id # raceCall["unreg"].v.Id
    /\ raceCall["reg"].v.Collection = raceCall["unreg"].v.Collection
    /\ \E d \in DataNodes :
          raceBase = RegisterVolumeLayoutIn(EmptyMap, raceCall["unreg"].v, d)

\* C20 (no lost registration under interleaving): however the statements
\* of RegisterVolumeLayout(V2, dn) and UnRegisterVolumeLayout(V1, dn') are
\* interleaved, V1 being the last volume registered before them, once both
\* have returned Lookup(collection, V2) returns dn and the collection is
\* listed.
C20_NoLostRegistration ==
    RaceOver =>
        /\ Lookup(raceCall["reg"].v.Collection, raceCall["reg"].v.Id)
             = { << raceCall["reg"].dn >> }
        /\ raceCall["reg"].v.Collection \in ListCollections(TRUE, FALSE)

(***************************************************************************)
(* Properties of the data center level                                     *)
(***************************************************************************)

\* C21 (data center uniqueness): after any sequence or interleaving of
\* GetOrCreateDataCenter calls, every object a call has returned for a name
\* is the one child the topology has under that name, and a call whose name
\* was there when it was made has created nothing.
C21_DataCenterUniqueness ==
    /\ \A n \in DcNames : \A dc \in dcReturned[n] :
          n \in DOMAIN children /\ children[n] = dc
    /\ \A t \in DcThreads : dcRet[t].existed => ~dcRet[t].created

====
